---- MODULE Spec2Model ----
(***************************************************************************)
(* Model of obsidian_kindleNotes_to_zotero.py: the sync driver (__main__), *)
(* the parent resolver (find_or_create_book_item and its helpers), the     *)
(* sent-log ("Journal") load and save, and the dry-run gate.               *)
(*                                                                         *)
(* Strings are sequences of one-character strings.  Python's None is the   *)
(* value None below; a Zotero key is a positive integer, 0 stands for an   *)
(* absent key (None) and -1 for the empty string; both are falsy.          *)
(***************************************************************************)
EXTENDS Integers, Sequences, FiniteSets, TLC

\* ------------------------------------------------------------------ bounds

\* Number of times the script is started, one after the other.
MaxRuns == 2

\* ------------------------------------------------------------ basic values

None == <<"<None>">>

NoKey == 0

\* the empty string where a key is expected
EmptyKey == -1

\* "if key:" on a key
KeyTruthy(k) == k > 0

Truthy(s) == s # None /\ s # <<>>

Range(f) == {f[i] : i \in DOMAIN f}

\* ------------------------------------------------------------ Normalization

\* string.punctuation + curly quotes, restricted to the characters in use
Punctuation == {"!", "|", ","}

Whitespace == {" "}

Lower(c) == CASE c = "A" -> "a"
              [] c = "B" -> "b"
              [] OTHER   -> c

LowerSeq(s) == [i \in 1..Len(s) |-> Lower(s[i])]

IsNotPunct(c) == c \notin Punctuation

\* s.translate(table): delete every punctuation character
Translate(s) == SelectSeq(s, IsNotPunct)

RECURSIVE SplitJoin(_, _, _)
\* " ".join(s.split()): acc is the output so far, word the pending word
SplitJoin(s, acc, word) ==
    IF s = <<>>
    THEN IF word = <<>> THEN acc
         ELSE IF acc = <<>> THEN word ELSE acc \o <<" ">> \o word
    ELSE IF Head(s) \in Whitespace
         THEN IF word = <<>> THEN SplitJoin(Tail(s), acc, <<>>)
              ELSE SplitJoin(Tail(s),
                             IF acc = <<>> THEN word ELSE acc \o <<" ">> \o word,
                             <<>>)
         ELSE SplitJoin(Tail(s), acc, Append(word, Head(s)))

\* the blanks collapsed before the punctuation is deleted
normalize_title_split_first(s) ==
    IF ~Truthy(s) THEN <<>>
    ELSE Translate(SplitJoin(LowerSeq(s), <<>>, <<>>))

normalize_title(s) ==
    IF ~Truthy(s) THEN <<>>
    ELSE SplitJoin(Translate(LowerSeq(s)), <<>>, <<>>)

normalize_author(s) ==
    IF ~Truthy(s) THEN <<>>
    ELSE SplitJoin(LowerSeq(s), <<>>, <<>>)

\* Python's "a in b" on strings
Contains(sub, s) ==
    \E i \in 0..(Len(s) - Len(sub)) : SubSeq(s, i + 1, i + Len(sub)) = sub

\* filters is ONLY_TITLES, a sequence of strings
title_matches_filters(title, filters) ==
    IF filters = <<>> THEN TRUE
    ELSE \E i \in 1..Len(filters) : Contains(LowerSeq(filters[i]), LowerSeq(title))

\* ---------------------------------------------------------------- Utilities

OrEmpty(s) == IF Truthy(s) THEN s ELSE <<>>

\* md5 is taken to be injective on the string it digests: the digest is
\* modelled by that string.
highlight_hash(h) ==
    h.text \o <<"|">> \o OrEmpty(h.note) \o <<"|">> \o OrEmpty(h.location)

note_html_from_highlight(h) ==
    <<"blockquote", h.text>>
    \o (IF Truthy(h.note) THEN <<"note", h.note>> ELSE <<>>)
    \o (IF Truthy(h.location) THEN <<"location", h.location>> ELSE <<>>)

\* ------------------------------------------------------------ the documents

\* parse_kindle_md is a collaborator: a document is what it returns.
Doc(title, author, highlights) ==
    [title |-> title, author |-> author, highlights |-> highlights]

HL(text, note, location) == [text |-> text, note |-> note, location |-> location]

h1 == HL(<<"x">>, None, <<"1">>)

h2 == HL(<<"y">>, <<"n">>, None)

h3 == HL(<<"x">>, None, None)

\* The vaults considered: each is sorted(vault.rglob("*.md")) after parsing.
\*  1: a two-highlight document and a second book
\*  2: two files with the same heading and different highlights
\*  3: two headings that normalize to the same title, and a file with no heading
\*  4: one file with the same highlight exported twice
Vaults ==
    { << Doc(<<"A">>, <<"B">>, <<h1, h2>>), Doc(<<"b">>, None, <<h3>>) >>,
      << Doc(<<"a">>, None, <<h1>>), Doc(<<"a">>, None, <<h2>>) >>,
      << Doc(<<"A">>, None, <<h1>>), Doc(None, None, <<>>), Doc(<<"a", "!">>, None, <<h3>>) >>,
      << Doc(<<"a">>, None, <<h1, h1>>) >> }

\* -------------------------------------------------------------- the Journal

EmptyMap == [t \in {} |-> NoKey]

\* A JSON object as json.loads returns it.  hasItems / hasDone: the key is
\* present; itemsOk / doneOk: its value has the type the script expects
\* (FALSE: a number or null).  sent: the per-title lists, keyed by title.
Journal(hasItems, itemsOk, items, hasDone, doneOk, done, sent) ==
    [hasItems |-> hasItems, itemsOk |-> itemsOk, items |-> items,
     hasDone |-> hasDone, doneOk |-> doneOk, done |-> done, sent |-> sent]

EmptyDict == Journal(FALSE, TRUE, EmptyMap, FALSE, TRUE, <<>>, EmptyMap)

\* A file: missing, unreadable, not JSON, a JSON list, or a JSON object.
File(kind, j) == [kind |-> kind, j |-> j]

MissingFile == File("missing", EmptyDict)

Put(f, k, v) == [x \in DOMAIN f \cup {k} |-> IF x = k THEN v ELSE f[x]]

Get(f, k, default) == IF k \in DOMAIN f THEN f[k] ELSE default

\* {**fallback, **data}: key by key, data wins
DictMerge(fallback, data) ==
    Journal(data.hasItems \/ fallback.hasItems,
            IF data.hasItems THEN data.itemsOk ELSE fallback.itemsOk,
            IF data.hasItems THEN data.items ELSE fallback.items,
            data.hasDone \/ fallback.hasDone,
            IF data.hasDone THEN data.doneOk ELSE fallback.doneOk,
            IF data.hasDone THEN data.done ELSE fallback.done,
            [t \in DOMAIN data.sent \cup DOMAIN fallback.sent |->
                IF t \in DOMAIN data.sent THEN data.sent[t] ELSE fallback.sent[t]])

\* data.setdefault("_items", {}); data.setdefault("_done_titles", [])
SetDefaults(d) ==
    Journal(TRUE, IF d.hasItems THEN d.itemsOk ELSE TRUE, d.items,
            TRUE, IF d.hasDone THEN d.doneOk ELSE TRUE, d.done, d.sent)

\* The first try block of load_sent_log: the value of data after it.
\* A list stays a list (kind "list"); every failure gives {}.
LoadPrimary(p) ==
    CASE p.kind = "dict" -> p
      [] p.kind = "list" -> p
      [] OTHER           -> File("dict", EmptyDict)

\* The second try block: merge the fallback under data; any exception
\* (unreadable, not JSON, and {**x, **y} with a list on either side) is
\* swallowed and data is left as it was.
LoadMerge(data, f) ==
    IF f.kind = "dict" /\ data.kind = "dict"
    THEN File("dict", DictMerge(f.j, data.j))
    ELSE data

\* load_sent_log: [raised |-> the setdefault calls raised, log |-> the result]
load_sent_log(p, f) ==
    LET data == LoadMerge(LoadPrimary(p), f)
    IN  IF data.kind = "dict"
        THEN [raised |-> FALSE, log |-> SetDefaults(data.j)]
        ELSE [raised |-> TRUE, log |-> EmptyDict]

\* save_sent_log: the two files after it, given which paths can be written.
\* [raised |-> the fallback write raised, primary, fallback]
save_sent_log(p, f, log, vaultWritable, localWritable) ==
    IF vaultWritable
    THEN [raised |-> FALSE, primary |-> File("dict", log), fallback |-> f]
    ELSE IF localWritable
         THEN [raised |-> FALSE, primary |-> p, fallback |-> File("dict", log)]
         ELSE [raised |-> TRUE, primary |-> p, fallback |-> f]

\* --------------------------------------------------------- the remote store

\* A parent record of the store; its key is its position in remoteItems.
Creator(type, lastName) == [creatorType |-> type, lastName |-> lastName]

\* created: the record was made by a create call of the script
RemoteItem(title, creators, created) ==
    [title |-> title, creators |-> creators, created |-> created]

\* The items of a 200 response: the store's records with their keys.
Listing(items) ==
    [i \in 1..Len(items) |->
        [key |-> i, title |-> items[i].title, creators |-> items[i].creators]]

RECURSIVE JoinLastNames(_)
\* " ".join([c.get("lastName","") for c in creators if creatorType == "author"])
JoinLastNames(creators) ==
    IF creators = <<>> THEN <<>>
    ELSE LET rest == JoinLastNames(Tail(creators))
             c == Head(creators)
         IN  IF c.creatorType # "author" THEN rest
             ELSE IF \A i \in 1..Len(Tail(creators)) :
                         Tail(creators)[i].creatorType # "author"
                  THEN c.lastName
                  ELSE c.lastName \o <<" ">> \o rest

\* One turn of the matching loop of search_item_by_title and
\* fetch_recent_and_match: does the response item pass both tests?
ItemMatches(it, want_title, want_author) ==
    /\ normalize_title(it.title) = want_title
    /\ want_author # <<>> =>
           Contains(want_author, normalize_author(JoinLastNames(it.creators)))

\* The loop: the key of the first item that passes, NoKey when none does.
FirstMatch(resp, title, author) ==
    LET want_title == normalize_title(title)
        want_author == normalize_author(author)
        hits == {i \in 1..Len(resp) : ItemMatches(resp[i], want_title, want_author)}
    IN  IF hits = {} THEN NoKey
        ELSE resp[CHOOSE i \in hits : \A j \in hits : i <= j].key

\* What a GET can come to: a 200 with a JSON list, a non-200 status, an
\* exception raised by requests (timeout, connection), a 200 whose body is
\* not JSON (r.json() raises).
GetOutcomes == {"ok", "status", "timeout", "malformed"}

\* The bodies a 200 listing can carry: nothing, or the store's records
\* (the search index may lag behind the store).
GetBodies(items) == {<<>>, Listing(items)}

\* What a POST or PUT through safe_post / safe_put can come to.  In a dry
\* run the helper returns _FakeResp() and nothing is sent.
safe_post(dry) == IF dry THEN {"fake"} ELSE {"ok", "status", "timeout"}

safe_put(dry) == IF dry THEN {"fake"} ELSE {"ok", "status", "timeout"}

\* ----- the response to a create call, as extract_created_key reads it

\* json: "raise" (not JSON), "dict", "list", "other"
\* successful: the values of data["successful"] when that is a dict
\*    (each [t |-> "dict" | "str" | "other", key]), <<>> when it is not
\* first: data[0] of a non-empty list: [isDict, key, dataKey]
\* location: the Location header: absent, or present with "/items/" in it
\*    or not; tail: what follows the last "/items/", stripped
CreateResp(json, successful, first, location) ==
    [json |-> json, successful |-> successful, first |-> first, location |-> location]

NoFirst == [isDict |-> FALSE, key |-> NoKey, dataKey |-> NoKey]

NoLocation == [present |-> FALSE, hasItems |-> FALSE, tail |-> NoKey]

RECURSIVE FirstSuccessful(_)
\* for _, v in succ.items(): the first value that yields a key
FirstSuccessful(vals) ==
    IF vals = <<>> THEN NoKey
    ELSE LET v == Head(vals)
         IN  IF v.t \in {"dict", "str"} /\ KeyTruthy(v.key) THEN v.key
             ELSE FirstSuccessful(Tail(vals))

extract_created_key(r) ==
    LET fromDict == IF r.json = "dict" THEN FirstSuccessful(r.successful) ELSE NoKey
        fromList == IF r.json = "list" /\ r.first.isDict
                    THEN IF KeyTruthy(r.first.key) THEN r.first.key
                         ELSE IF KeyTruthy(r.first.dataKey) THEN r.first.dataKey
                         ELSE NoKey
                    ELSE NoKey
        fromLoc  == IF r.location.present /\ r.location.hasItems
                    THEN r.location.tail ELSE NoKey
    IN  IF fromDict # NoKey THEN fromDict
        ELSE IF fromList # NoKey THEN fromList
        ELSE fromLoc

\* The shapes a 200/201 create response takes for a record created under key k
CreateResponses(k) ==
    { CreateResp("dict", <<[t |-> "dict", key |-> k]>>, NoFirst, NoLocation),
      CreateResp("raise", <<>>, NoFirst,
                 [present |-> TRUE, hasItems |-> TRUE, tail |-> k]),
      CreateResp("dict", <<>>, NoFirst, NoLocation) }

\* the recovery loop with one turn less
RecoveryAttemptsShort == 3 - 1

\* range(3) in find_or_create_book_item
RecoveryAttempts == 3

\* the key of the "Books" collection once it exists
CollectionKey == 1

\* ------------------------------------------------------ run configuration

\* The settings at the top of the script (lines 35-40) as the user may
\* have edited them before a run.
Config(dry, resume, only, limit) ==
    [DRY_RUN |-> dry, RESUME_ENABLED |-> resume, ONLY_TITLES |-> only,
     BATCH_LIMIT |-> limit]

\* dry run, live run with resume, live run without
Configs ==
    { Config(TRUE, TRUE, <<>>, 0),
      Config(FALSE, TRUE, <<>>, 0),
      Config(FALSE, FALSE, <<>>, 0) }

\* the same, and a title filter and a batch limit
AllConfigs ==
    Configs \cup { Config(FALSE, TRUE, <<<<"B">>>>, 0),
                   Config(FALSE, TRUE, <<>>, 1),
                   Config(TRUE, TRUE, <<>>, 1) }

\* What Alert.show() can give: the index of the first button, the text of a
\* button, the Cancel button, or no pyto_ui at all (the import raises).
PromptResults == {"0", "send now", "cancel", "unavailable"}

\* any answer of the alert taken for a yes
confirm_unless_unavailable(result) == result # "unavailable"

\* proceed = (result == 0) if isinstance(result, int) else (s in {"send now", "send"})
confirm_live_or_abort(result) == result \in {"0", "send now", "send"}

\* The user pressed the first button, "SEND NOW".
AnsweredYes(result) == result \in {"0", "send now"}

\* ------------------------------------------------------------------- state

VARIABLES
    md_files,        \* the parsed documents of the vault, in sorted order
    primaryFile,     \* <vault>/.sent_highlights.json
    fallbackFile,    \* .sent_highlights_local.json
    remoteItems,     \* the store's parent records
    run,             \* number of the current (or last) run
    DRY_RUN, RESUME_ENABLED, ONLY_TITLES, BATCH_LIMIT,
    pc,              \* where the script is
    abortReason,     \* why the run ended in an uncaught exception
    collection_key, sent_log, done_set, processed, matched,
    idx,             \* position of the current document in md_files
    item_key, already, created_count,
    hidx,            \* number of highlights of the document gone through
    attempt,         \* the loop variable of the key recovery
    \* ---- history, read by the properties only
    runInfo,         \* per run: its mode, the prompt and how it ended
    childLog,        \* the child-creation calls sent to the store
    lastCall,        \* the mutating call the last step sent to the store
    visitLog,        \* <<document, how it ended>> for the documents of this run
    committed,       \* <<run, document>>: the run saved the Journal for it
    docStart,        \* Journal (memory and files) when the resolver was called
    runStart,        \* the files when the run started
    listCalls,       \* recency listings issued for the current document
    createCalls,     \* create-parent calls issued for the current document
    \* ---- one call of a helper function, by itself
    call,            \* the function and its arguments
    ret              \* <<>> before the call, <<the value returned>> after

progVars == << md_files, primaryFile, fallbackFile, remoteItems, run,
           DRY_RUN, RESUME_ENABLED, ONLY_TITLES, BATCH_LIMIT, pc, abortReason,
           collection_key, sent_log, done_set, processed, matched, idx,
           item_key, already, created_count, hidx, attempt,
           runInfo, childLog, lastCall, visitLog, committed, docStart, runStart,
           listCalls, createCalls >>

funVars == << call, ret >>

vars == << progVars, funVars >>

envVars == << md_files, primaryFile, fallbackFile, remoteItems >>

cfgVars == << run, DRY_RUN, RESUME_ENABLED, ONLY_TITLES, BATCH_LIMIT >>

loopVars == << processed, matched, idx >>

docVars == << item_key, already, created_count, hidx, attempt >>

histVars == << runInfo, childLog, lastCall, visitLog, committed, docStart,
               runStart, listCalls, createCalls >>

Snapshot == [log |-> sent_log, primary |-> primaryFile, fallback |-> fallbackFile]

NoSnapshot == [log |-> EmptyDict, primary |-> MissingFile, fallback |-> MissingFile]

Stopped == {"idle", "done", "exited", "aborted", "killed"}

\* no helper is being called by itself
NoCall == [fn |-> "none", arg |-> <<>>]

InitLocals ==
    /\ pc = "idle" /\ abortReason = "none" /\ run = 0
    /\ DRY_RUN = TRUE /\ RESUME_ENABLED = TRUE /\ ONLY_TITLES = <<>> /\ BATCH_LIMIT = 0
    /\ collection_key = NoKey /\ sent_log = EmptyDict /\ done_set = {}
    /\ processed = 0 /\ matched = 0 /\ idx = 0
    /\ item_key = NoKey /\ already = {} /\ created_count = 0 /\ hidx = 0 /\ attempt = 0
    /\ runInfo = <<>> /\ childLog = {} /\ lastCall = "none" /\ visitLog = {}
    /\ committed = {}
    /\ docStart = NoSnapshot /\ runStart = NoSnapshot
    /\ listCalls = 0 /\ createCalls = 0

InitFun == call = NoCall /\ ret = <<>>

\* The stores the first run can meet: empty, or holding a record entered by
\* hand whose only creator is an editor.
InitialStores ==
    {<<>>, <<RemoteItem(<<"a">>, <<Creator("editor", <<"b">>)>>, FALSE)>>}

Init ==
    /\ md_files \in Vaults
    /\ primaryFile = MissingFile /\ fallbackFile = MissingFile
    /\ remoteItems \in InitialStores
    /\ InitLocals /\ InitFun

\* No mutating call goes out in this step.
Quiet == lastCall' = "none"

\* ------------------------------------------------------------ run endings

\* The places of the script that lie inside the work on one document
InDocument == {"search", "create", "recover", "unresolved", "resolved", "notes"}

\* killedDoc: the document the run was working on when it was killed
EndRun(kind) ==
    runInfo' = [runInfo EXCEPT ![run] =
                   [@ EXCEPT !.killedDoc = IF kind = "killed" /\ pc \in InDocument
                                           THEN idx ELSE 0]]

\* An exception nobody catches: the traceback ends the process.
Abort(reason) ==
    /\ pc' = "aborted" /\ abortReason' = reason /\ EndRun("aborted")

\* ----------------------------------------------------------------- actions

\* The script is started with one of the settings cfgs (lines 316-318).
Start(cfgs) ==
    /\ UNCHANGED funVars
    /\ run' = run + 1
    /\ \E c \in cfgs :
          /\ DRY_RUN' = c.DRY_RUN /\ RESUME_ENABLED' = c.RESUME_ENABLED
          /\ ONLY_TITLES' = c.ONLY_TITLES /\ BATCH_LIMIT' = c.BATCH_LIMIT
          /\ pc' = IF c.DRY_RUN THEN "collection" ELSE "confirm"
          /\ runInfo' = Append(runInfo, [dry |-> c.DRY_RUN, killedDoc |-> 0,
                                          prompts |-> 0, answer |-> "none",
                                          inSave |-> FALSE])
    /\ abortReason' = "none"
    /\ collection_key' = NoKey /\ sent_log' = EmptyDict /\ done_set' = {}
    /\ processed' = 0 /\ matched' = 0 /\ idx' = 0
    /\ item_key' = NoKey /\ already' = {} /\ created_count' = 0 /\ hidx' = 0
    /\ attempt' = 0 /\ listCalls' = 0 /\ createCalls' = 0
    /\ docStart' = NoSnapshot
    /\ runStart' = [log |-> EmptyDict, primary |-> primaryFile, fallback |-> fallbackFile]
    /\ Quiet /\ visitLog' = {}
    /\ UNCHANGED << envVars, childLog, committed >>

\* A run after the other, each under its own settings
StartRun == pc \in Stopped /\ run < MaxRuns /\ Start(Configs)

\* One run
StartOnce == pc = "idle" /\ run = 0 /\ Start(AllConfigs)

\* confirm_live_or_abort (lines 81-94)
Confirm ==
    /\ UNCHANGED funVars
    /\ pc = "confirm"
    /\ \E result \in PromptResults :
          /\ pc' = IF confirm_live_or_abort(result) THEN "collection" ELSE "exited"
          /\ runInfo' = [runInfo EXCEPT ![run] =
                            [@ EXCEPT !.prompts = @ + 1,
                                      !.answer = IF AnsweredYes(result)
                                                 THEN "yes" ELSE "no"]]
    /\ UNCHANGED << envVars, cfgVars, abortReason, collection_key, sent_log,
                    done_set, loopVars, docVars, childLog, visitLog,
                    committed, docStart, runStart, listCalls, createCalls >> /\ Quiet

\* What the listing of the collections shows: the store's collections are
\* the user's to create and delete, so either answer is possible.
CollectionListings == {"listed", "absent"}

\* get_or_create_collection (lines 169-185), called at line 329
GetOrCreateCollection ==
    /\ UNCHANGED funVars
    /\ pc = "collection"
    /\ \E g \in GetOutcomes, seen \in CollectionListings :
         IF g \in {"timeout", "malformed"}
         THEN Abort("setup") /\ UNCHANGED << collection_key >> /\ Quiet
         ELSE IF g = "ok" /\ seen = "listed"
         THEN /\ collection_key' = CollectionKey /\ pc' = "load"
              /\ UNCHANGED << abortReason, runInfo >> /\ Quiet
         ELSE IF DRY_RUN
         THEN /\ collection_key' = NoKey /\ pc' = "load"
              /\ UNCHANGED << abortReason, runInfo >> /\ Quiet
         ELSE \E p \in safe_post(DRY_RUN) :
                /\ lastCall' = IF p = "fake" THEN "none" ELSE "create_collection"
                /\ IF p = "timeout"
                   THEN Abort("setup") /\ UNCHANGED collection_key
                   ELSE IF p = "status"
                   THEN /\ collection_key' = NoKey /\ pc' = "load"
                        /\ UNCHANGED << abortReason, runInfo >>
                   ELSE \E g2 \in GetOutcomes, seen2 \in CollectionListings :
                          IF g2 \in {"timeout", "malformed"}
                          THEN Abort("setup") /\ UNCHANGED collection_key
                          ELSE /\ collection_key' =
                                     IF g2 = "ok" /\ seen2 = "listed"
                                     THEN CollectionKey ELSE NoKey
                               /\ pc' = "load"
                               /\ UNCHANGED << abortReason, runInfo >>
    /\ UNCHANGED << md_files, primaryFile, fallbackFile, remoteItems, cfgVars,
                    sent_log, done_set, loopVars, docVars, childLog, visitLog,
                    committed, docStart, runStart, listCalls, createCalls >>

\* sent_log = load_sent_log(...); done_set = set(...) (lines 333-337)
LoadSentLog ==
    /\ UNCHANGED funVars
    /\ pc = "load"
    /\ LET r == load_sent_log(primaryFile, fallbackFile)
       IN  IF r.raised \/ ~r.log.doneOk
           THEN Abort("journal_load") /\ UNCHANGED << sent_log, done_set >>
           ELSE /\ sent_log' = r.log
                /\ done_set' = Range(r.log.done)
                /\ pc' = "loop"
                /\ UNCHANGED << abortReason, runInfo >>
    /\ runStart' = [runStart EXCEPT !.log = sent_log']
    /\ processed' = 0 /\ matched' = 0
    /\ UNCHANGED << envVars, cfgVars, collection_key, idx, docVars, childLog,
                    visitLog, committed, docStart, listCalls, createCalls >>
    /\ Quiet

Visit(outcome) == visitLog' = visitLog \cup {<<idx, outcome>>}

CurDoc == md_files[idx]

\* The head of the loop over md_files (lines 339-352), and line 388 after it.
NextDoc ==
    /\ UNCHANGED funVars
    /\ pc = "loop"
    /\ IF idx = Len(md_files)
       THEN /\ pc' = "done" /\ EndRun("done")
            /\ UNCHANGED << idx, matched, visitLog, docStart >>
       ELSE LET d == md_files[idx + 1]
                norm_t == normalize_title(d.title)
            IN  /\ idx' = idx + 1
                /\ UNCHANGED runInfo
                /\ IF ~Truthy(d.title) \/ ~title_matches_filters(d.title, ONLY_TITLES)
                   THEN /\ pc' = "loop"
                        /\ visitLog' = visitLog \cup {<<idx + 1, "filtered">>}
                        /\ UNCHANGED << matched, docStart >>
                   ELSE /\ matched' = matched + 1
                        /\ IF RESUME_ENABLED /\ ~DRY_RUN /\ norm_t \in done_set
                           THEN /\ pc' = "loop"
                                /\ visitLog' = visitLog \cup {<<idx + 1, "skipped">>}
                                /\ UNCHANGED docStart
                           ELSE /\ pc' = "search"
                                /\ docStart' = Snapshot
                                /\ UNCHANGED visitLog
    /\ listCalls' = 0 /\ createCalls' = 0
    /\ UNCHANGED << envVars, cfgVars, abortReason, collection_key, sent_log,
                    done_set, processed, docVars, childLog, committed,
                    runStart >> /\ Quiet

\* cache["_items"][want_title] = key
CacheKey(log, norm_t, key) == [log EXCEPT !.items = Put(log.items, norm_t, key)]

\* find_or_create_book_item up to its dry-run return (lines 272-276), with
\* search_item_by_title (lines 205-222)
SearchItem ==
    /\ UNCHANGED funVars
    /\ pc = "search"
    /\ LET norm_t == normalize_title(CurDoc.title)
           cached == Get(sent_log.items, norm_t, NoKey)
           missed == IF DRY_RUN THEN "unresolved" ELSE "create"
       IN  IF ~sent_log.itemsOk
           THEN Abort("journal_items") /\ UNCHANGED << sent_log, item_key >>
           ELSE IF cached # NoKey
           THEN /\ item_key' = cached /\ pc' = "resolved"
                /\ UNCHANGED << sent_log, abortReason, runInfo >>
           ELSE \E g \in GetOutcomes :
                  IF g \in {"timeout", "malformed"}
                  THEN Abort("transport") /\ UNCHANGED << sent_log, item_key >>
                  ELSE IF g = "status"
                  THEN /\ item_key' = NoKey /\ pc' = missed
                       /\ UNCHANGED << sent_log, abortReason, runInfo >>
                  ELSE \E body \in GetBodies(remoteItems) :
                         LET key == FirstMatch(body, CurDoc.title, CurDoc.author)
                         IN  /\ item_key' = key
                             /\ sent_log' = IF key # NoKey
                                            THEN CacheKey(sent_log, norm_t, key)
                                            ELSE sent_log
                             /\ pc' = IF key # NoKey THEN "resolved" ELSE missed
                             /\ UNCHANGED << abortReason, runInfo >>
    /\ UNCHANGED << envVars, cfgVars, collection_key, done_set, loopVars,
                    already, created_count, hidx, attempt, childLog, visitLog,
                    committed, docStart, runStart, listCalls, createCalls >>
    /\ Quiet

\* creators = [{"creatorType":"author", ..., "lastName": author}] if author else []
NewItem(d) ==
    RemoteItem(d.title,
               IF Truthy(d.author) THEN <<Creator("author", d.author)>> ELSE <<>>,
               TRUE)

\* find_or_create_book_item: the create call and the key extraction
\* (lines 277-287)
CreateParent ==
    /\ UNCHANGED funVars
    /\ pc = "create"
    /\ createCalls' = createCalls + 1
    /\ attempt' = 0
    /\ \E p \in safe_post(DRY_RUN) :
         /\ lastCall' = IF p = "fake" THEN "none" ELSE "create_parent"
         /\ IF p = "timeout"
            THEN Abort("transport") /\ UNCHANGED << remoteItems, sent_log, item_key >>
            ELSE IF p = "status"
            THEN /\ pc' = "unresolved" /\ item_key' = NoKey
                 /\ UNCHANGED << remoteItems, sent_log, abortReason, runInfo >>
            ELSE IF p = "fake"
            THEN \* _FakeResp: status 200, json() == {}, no headers
                 /\ pc' = "recover" /\ item_key' = NoKey
                 /\ UNCHANGED << remoteItems, sent_log, abortReason, runInfo >>
            ELSE /\ remoteItems' = Append(remoteItems, NewItem(CurDoc))
                 /\ \E r \in CreateResponses(Len(remoteItems) + 1) :
                      LET created_key == extract_created_key(r)
                      IN  /\ item_key' = created_key
                          /\ IF KeyTruthy(created_key)
                             THEN /\ sent_log' = CacheKey(sent_log,
                                        normalize_title(CurDoc.title), created_key)
                                  /\ pc' = "resolved"
                             ELSE /\ pc' = "recover"
                                  /\ UNCHANGED sent_log
                 /\ UNCHANGED << abortReason, runInfo >>
    /\ UNCHANGED << md_files, primaryFile, fallbackFile, cfgVars,
                    collection_key, done_set, loopVars, already, created_count,
                    hidx, childLog, visitLog, committed, docStart, runStart,
                    listCalls >>

\* One turn of the recovery loop (lines 288-292) with
\* fetch_recent_and_match (lines 251-268)
FetchRecent ==
    /\ UNCHANGED funVars
    /\ pc = "recover"
    /\ listCalls' = listCalls + 1
    /\ \E g \in GetOutcomes :
         IF g \in {"timeout", "malformed"}
         THEN Abort("transport") /\ UNCHANGED << sent_log, item_key, attempt >>
         ELSE \E body \in (IF g = "ok" THEN GetBodies(remoteItems) ELSE {<<>>}) :
                LET key == FirstMatch(body, CurDoc.title, CurDoc.author)
                IN  /\ item_key' = key
                    /\ IF key # NoKey
                       THEN /\ sent_log' = CacheKey(sent_log,
                                  normalize_title(CurDoc.title), key)
                            /\ pc' = "resolved"
                            /\ UNCHANGED attempt
                       ELSE /\ attempt' = attempt + 1
                            /\ pc' = IF attempt + 1 < RecoveryAttempts
                                     THEN "recover" ELSE "unresolved"
                            /\ UNCHANGED sent_log
                    /\ UNCHANGED << abortReason, runInfo >>
    /\ UNCHANGED << envVars, cfgVars, collection_key, done_set, loopVars,
                    already, created_count, hidx, childLog, visitLog,
                    committed, docStart, runStart, createCalls >> /\ Quiet

\* No item key: the notes are skipped (lines 359-361).
ParentFailed ==
    /\ UNCHANGED funVars
    /\ pc = "unresolved"
    /\ pc' = "loop"
    /\ Visit("failed")
    /\ docStart' = NoSnapshot /\ listCalls' = 0 /\ createCalls' = 0
    /\ UNCHANGED << envVars, cfgVars, abortReason, collection_key, sent_log,
                    done_set, loopVars, docVars, runInfo, childLog, committed, runStart >> /\ Quiet

\* What the item fetched by ensure_item_in_collection shows: it is in the
\* collection already, or it is not (a record found by search, or one the
\* user moved).
Memberships == {"member", "not member"}

\* An item key: ensure_item_in_collection (lines 187-202) when there is a
\* collection and the run is live (lines 356-358), then the per-title list
\* (lines 363-367).
Resolved ==
    /\ UNCHANGED funVars
    /\ pc = "resolved"
    /\ LET toNotes ==
             /\ sent_log' = [sent_log EXCEPT !.sent =
                                IF CurDoc.title \in DOMAIN sent_log.sent
                                THEN sent_log.sent
                                ELSE Put(sent_log.sent, CurDoc.title, <<>>)]
             /\ already' = Range(Get(sent_log.sent, CurDoc.title, <<>>))
             /\ created_count' = 0 /\ hidx' = 0
             /\ pc' = "notes"
             /\ UNCHANGED << abortReason, runInfo >>
           stop == Abort("transport")
                   /\ UNCHANGED << sent_log, already, created_count, hidx >>
       IN  IF collection_key = NoKey \/ DRY_RUN
           THEN toNotes /\ Quiet
           ELSE \E g \in GetOutcomes, m \in Memberships :
                  IF g \in {"timeout", "malformed"}
                  THEN stop /\ Quiet
                  ELSE IF g = "status" \/ m = "member"
                  THEN toNotes /\ Quiet
                  ELSE \E u \in safe_put(DRY_RUN) :
                         /\ lastCall' = IF u = "fake" THEN "none" ELSE "update_collection"
                         /\ IF u = "timeout" THEN stop ELSE toNotes
    /\ UNCHANGED << envVars, cfgVars, collection_key, done_set, loopVars,
                    item_key, attempt, childLog, visitLog, committed, docStart,
                    runStart, listCalls, createCalls >>

\* the test of the run mode left out
WritesJournalAlways(dry) == TRUE

\* if not DRY_RUN: (line 374 and line 377)
WritesJournal(dry) == ~dry

\* One turn of the loop over the highlights (lines 368-375), with
\* create_note_for_item (lines 294-301)
ProcessHighlight ==
    /\ UNCHANGED funVars
    /\ pc = "notes" /\ hidx < Len(CurDoc.highlights)
    /\ hidx' = hidx + 1
    /\ LET h == CurDoc.highlights[hidx + 1]
           h_id == highlight_hash(h)
           html == note_html_from_highlight(h)
           append ==
             IF WritesJournal(DRY_RUN)
             THEN /\ sent_log' = [sent_log EXCEPT !.sent[CurDoc.title] = Append(@, h_id)]
                  /\ created_count' = created_count + 1
             ELSE UNCHANGED << sent_log, created_count >>
       IN  IF h_id \in already
           THEN /\ pc' = "notes"
                /\ UNCHANGED << sent_log, created_count, childLog, abortReason, runInfo >> /\ Quiet
           ELSE IF DRY_RUN
           THEN /\ pc' = "notes" /\ append
                /\ UNCHANGED << childLog, abortReason, runInfo >> /\ Quiet
           ELSE \E p \in safe_post(DRY_RUN) :
                  /\ lastCall' = IF p = "fake" THEN "none" ELSE "create_child"
                  /\ childLog' = IF p = "fake" THEN childLog
                                 ELSE childLog \cup
                                        {[run |-> run, doc |-> idx, h |-> hidx + 1,
                                          fp |-> h_id, ok |-> p = "ok"]}
                  /\ IF p = "timeout"
                     THEN Abort("transport") /\ UNCHANGED << sent_log, created_count >>
                     ELSE /\ pc' = "notes" /\ append
                          /\ UNCHANGED << abortReason, runInfo >>
    /\ UNCHANGED << envVars, cfgVars, collection_key, done_set, loopVars,
                    item_key, already, attempt, visitLog, committed, docStart,
                    runStart, listCalls, createCalls >>

\* After the last highlight: mark the title done and save (lines 377-382),
\* then count the document against BATCH_LIMIT (lines 384-386).
Commit ==
    /\ UNCHANGED funVars
    /\ pc = "notes" /\ hidx = Len(CurDoc.highlights)
    /\ LET norm_t == normalize_title(CurDoc.title)
           log == IF norm_t \in done_set THEN sent_log
                  ELSE [sent_log EXCEPT !.done = Append(@, norm_t)]
           next == IF BATCH_LIMIT # 0 /\ processed + 1 >= BATCH_LIMIT
                   THEN "done" ELSE "loop"
           finish ==
             /\ processed' = processed + 1
             /\ pc' = next
             /\ Visit("committed")
             /\ abortReason' = abortReason
             /\ IF next = "done" THEN EndRun("done") ELSE UNCHANGED runInfo
       IN  IF WritesJournal(DRY_RUN)
           THEN /\ sent_log' = log
                /\ done_set' = done_set \cup {norm_t}
                /\ \E vaultWritable \in BOOLEAN, localWritable \in BOOLEAN :
                     LET saved == save_sent_log(primaryFile, fallbackFile, log,
                                                vaultWritable, localWritable)
                     IN  /\ primaryFile' = saved.primary
                         /\ fallbackFile' = saved.fallback
                         /\ IF saved.raised
                            THEN Abort("journal_save")
                                 /\ UNCHANGED << processed, visitLog, committed >>
                            ELSE /\ finish
                                 /\ committed' = committed \cup {<<run, idx>>}
           ELSE /\ finish
                /\ UNCHANGED << sent_log, done_set, primaryFile, fallbackFile,
                                committed >>
    /\ docStart' = NoSnapshot /\ listCalls' = 0 /\ createCalls' = 0
    /\ UNCHANGED << md_files, remoteItems, cfgVars, collection_key,
                    matched, idx, docVars, childLog, runStart >> /\ Quiet

Running == {"confirm", "collection", "load", "loop", "search", "create",
            "recover", "unresolved", "resolved", "notes"}

\* The process is killed from outside.
Kill ==
    /\ UNCHANGED funVars
    /\ pc \in Running
    /\ pc' = "killed"
    /\ EndRun("killed")
    /\ UNCHANGED << envVars, cfgVars, abortReason, collection_key, sent_log,
                    done_set, loopVars, docVars, childLog, visitLog,
                    committed, docStart, runStart, listCalls, createCalls >> /\ Quiet

\* The process is killed inside save_sent_log (lines 120-129), called at
\* line 382, between the open of write_text, which empties the file, and
\* its last byte: the file is left cut short.  (Killed before the open is
\* Kill at this place; killed after the last byte leaves the files as
\* Commit leaves them.)
KillInSave ==
    /\ UNCHANGED funVars
    /\ pc = "notes" /\ hidx = Len(CurDoc.highlights) /\ WritesJournal(DRY_RUN)
    /\ LET norm_t == normalize_title(CurDoc.title)
           log == IF norm_t \in done_set THEN sent_log
                  ELSE [sent_log EXCEPT !.done = Append(@, norm_t)]
       IN  /\ sent_log' = log
           /\ done_set' = done_set \cup {norm_t}
    /\ \E vaultWritable \in BOOLEAN :
          IF vaultWritable
          THEN primaryFile' = File("invalid", EmptyDict) /\ UNCHANGED fallbackFile
          ELSE fallbackFile' = File("invalid", EmptyDict) /\ UNCHANGED primaryFile
    /\ pc' = "killed"
    /\ runInfo' = [runInfo EXCEPT ![run] =
                      [@ EXCEPT !.killedDoc = idx, !.inSave = TRUE]]
    /\ UNCHANGED << md_files, remoteItems, cfgVars, abortReason, collection_key,
                    loopVars, docVars, childLog, visitLog, committed, docStart,
                    runStart, listCalls, createCalls >> /\ Quiet

Steps ==
    \/ Confirm
    \/ GetOrCreateCollection
    \/ LoadSentLog
    \/ NextDoc
    \/ SearchItem
    \/ CreateParent
    \/ FetchRecent
    \/ ParentFailed
    \/ Resolved
    \/ ProcessHighlight
    \/ Commit
    \/ Kill

Next == StartRun \/ Steps

Spec == Init /\ [][Next]_vars

\* ---- one run, from any Journal files, the kill inside a save included

fpA == highlight_hash(h1)

\* A Journal an earlier run left: the parent of "a" is record 1, its title
\* is done, and the first highlight is sent under either heading.
UsedJournal ==
    Journal(TRUE, TRUE, [t \in {<<"a">>} |-> 1], TRUE, TRUE, <<<<"a">>>>,
            [t \in {<<"A">>, <<"a">>} |-> <<fpA>>])

\* What the primary file can hold: nothing, bytes that cannot be read or
\* are not JSON, a JSON list, an object without the two keys, an object
\* whose "_done_titles" or "_items" is a number, a used Journal.
PrimaryFiles ==
    { MissingFile, File("unreadable", EmptyDict), File("invalid", EmptyDict),
      File("list", EmptyDict), File("dict", EmptyDict),
      File("dict", [EmptyDict EXCEPT !.hasDone = TRUE, !.doneOk = FALSE]),
      File("dict", [EmptyDict EXCEPT !.hasItems = TRUE, !.itemsOk = FALSE]),
      File("dict", UsedJournal) }

FallbackFiles ==
    { MissingFile, File("invalid", EmptyDict), File("list", EmptyDict),
      File("dict", UsedJournal) }

InitRun ==
    /\ md_files \in Vaults
    /\ primaryFile \in PrimaryFiles /\ fallbackFile \in FallbackFiles
    /\ remoteItems \in InitialStores
    /\ InitLocals /\ InitFun

NextRun == StartOnce \/ Steps \/ KillInSave

SpecRun == InitRun /\ [][NextRun]_vars

\* ---- one call of a helper function, by itself

\* Highlights as parse_kindle_md can return them: the text is a non-empty
\* first line, the note any text or none, the location digits or none.
Highlights ==
    { HL(t, n, l) : t \in {<<"x">>, <<"x", "|">>, <<"x", "|", "y">>},
                    n \in {None, <<>>, <<"y">>, <<"y", "|">>},
                    l \in {None, <<"1">>} }

\* the longest title a call is made with
MaxTitleLen == 4

RECURSIVE StringsUpTo(_, _)
\* the strings over chars of length n at most
StringsUpTo(chars, n) ==
    IF n = 0 THEN {<<>>}
    ELSE LET shorter == StringsUpTo(chars, n - 1)
         IN  shorter \cup {Append(w, c) : w \in shorter, c \in chars}

\* a heading, or none
TitleStrings == {None} \cup StringsUpTo({"A", "a", "!", " "}, MaxTitleLen)

\* values of data["successful"]: an object with a key, with an empty key
\* or with none, a string, an empty string, a number
SuccessfulValues ==
    { [t |-> "dict", key |-> 2], [t |-> "dict", key |-> NoKey],
      [t |-> "dict", key |-> EmptyKey], [t |-> "str", key |-> 3],
      [t |-> "str", key |-> EmptyKey], [t |-> "other", key |-> NoKey] }

\* The responses a create call can be answered with: any body, any
\* Location header.
Responses ==
    { CreateResp(j, succ, f, loc) :
        j \in {"raise", "dict", "list", "other"},
        succ \in {<<>>} \cup {<<v>> : v \in SuccessfulValues}
                 \cup {<<v, [t |-> "str", key |-> 3]>> : v \in SuccessfulValues},
        f \in { NoFirst,
                [isDict |-> TRUE, key |-> 4, dataKey |-> 5],
                [isDict |-> TRUE, key |-> NoKey, dataKey |-> 5],
                [isDict |-> TRUE, key |-> EmptyKey, dataKey |-> NoKey] },
        loc \in { NoLocation,
                  [present |-> TRUE, hasItems |-> FALSE, tail |-> NoKey],
                  [present |-> TRUE, hasItems |-> TRUE, tail |-> 6],
                  [present |-> TRUE, hasItems |-> TRUE, tail |-> EmptyKey] } }

FunCalls ==
    { [fn |-> "highlight_hash", arg |-> <<a, b>>] : a \in Highlights, b \in Highlights }
    \cup { [fn |-> "normalize_title", arg |-> s] : s \in TitleStrings }
    \cup { [fn |-> "extract_created_key", arg |-> r] : r \in Responses }

InitCalls ==
    /\ call \in FunCalls /\ ret = <<>>
    /\ md_files = <<>> /\ primaryFile = MissingFile /\ fallbackFile = MissingFile
    /\ remoteItems = <<>>
    /\ InitLocals

\* highlight_hash of two highlights
CallHighlightHash ==
    /\ call.fn = "highlight_hash" /\ ret = <<>>
    /\ ret' = << <<highlight_hash(call.arg[1]), highlight_hash(call.arg[2])>> >>
    /\ UNCHANGED << call, progVars >>

CallNormalizeTitle ==
    /\ call.fn = "normalize_title" /\ ret = <<>>
    /\ ret' = << normalize_title(call.arg) >>
    /\ UNCHANGED << call, progVars >>

CallExtractCreatedKey ==
    /\ call.fn = "extract_created_key" /\ ret = <<>>
    /\ ret' = << extract_created_key(call.arg) >>
    /\ UNCHANGED << call, progVars >>

NextFun == CallHighlightHash \/ CallNormalizeTitle \/ CallExtractCreatedKey

SpecFun == InitCalls /\ [][NextFun]_vars

\* ------------------------------------------------------------- properties

Title(i) == md_files[i].title

\* every run strictly between runs r1 and r2 was a dry run
NoLiveRunBetween(r1, r2) == \A r \in (r1 + 1)..(r2 - 1) : runInfo[r].dry

\* the calls c1 and c2 are for the same highlight
SameHighlight(c1, c2) == Title(c1.doc) = Title(c2.doc) /\ c1.fp = c2.fp

\* C1: a highlight whose child-creation call succeeded in a live run that
\* was then killed inside the same document gets no second child-creation
\* call in the next live run.
C1_NoSecondCallAfterKill ==
    \A c1 \in childLog, c2 \in childLog :
        ~ ( /\ c1.ok
            /\ runInfo[c1.run].killedDoc = c1.doc
            /\ c1.run < c2.run
            /\ NoLiveRunBetween(c1.run, c2.run)
            /\ SameHighlight(c1, c2) )

\* C2: a fingerprint is in perTitleSent[title] if and only if a
\* child-creation call for it was made in a live run and did not fail.
C2_SentIffCreated ==
    pc \in {"loop", "search", "create", "recover", "unresolved", "resolved", "notes"} =>
        /\ \A t \in DOMAIN sent_log.sent :
             \A fp \in Range(sent_log.sent[t]) :
                \E c \in childLog : Title(c.doc) = t /\ c.fp = fp /\ c.ok
        /\ \A c \in childLog :
             (c.run = run /\ c.ok) =>
                 /\ Title(c.doc) \in DOMAIN sent_log.sent
                 /\ c.fp \in Range(sent_log.sent[Title(c.doc)])

\* C3: a highlight whose child-creation call failed in a live run gets the
\* call again in the next live run with resume enabled that goes over its
\* document.
C3_FailedChildRetried ==
    (pc = "done" /\ ~DRY_RUN /\ RESUME_ENABLED) =>
        \A c \in childLog :
            ( /\ ~c.ok
              /\ c.run < run
              /\ NoLiveRunBetween(c.run, run)
              /\ \A c1 \in childLog : (SameHighlight(c, c1) /\ c1.run < run) => ~c1.ok
              /\ \E o \in {"skipped", "committed"} : <<c.doc, o>> \in visitLog )
            => \E c2 \in childLog : c2.run = run /\ SameHighlight(c, c2)

\* C4: the store accepts at most one create-parent call for a normalized
\* title.
C4_AtMostOneCreate ==
    \A i \in DOMAIN remoteItems, j \in DOMAIN remoteItems :
        ( /\ remoteItems[i].created /\ remoteItems[j].created
          /\ normalize_title(remoteItems[i].title) = normalize_title(remoteItems[j].title) )
        => i = j

\* C5: a document a live run went through and saved gets no child-creation
\* call in the next live run, with resume enabled or not.
C5_SecondRunCreatesNothing ==
    \A c \in childLog, d \in committed :
        ~ ( /\ d[1] < c.run
            /\ d[2] = c.doc
            /\ NoLiveRunBetween(d[1], c.run) )

\* C6: in a dry run the Journal, in memory and on disk, never changes and
\* no mutating call goes to the store.
C6_SimulationNeverChangesJournal ==
    (run > 0 /\ DRY_RUN) =>
        /\ lastCall = "none"
        /\ primaryFile = runStart.primary /\ fallbackFile = runStart.fallback
        /\ pc \in InDocument \cup {"loop", "done"} => sent_log = runStart.log

\* the per-title list of title t in Journal log, empty when there is none
SentOf(log, t) == Get(log.sent, t, <<>>)

\* C6 as amended: in a dry run the Journal files never change, no mutating
\* call goes to the store, and the Journal in memory gains no fingerprint
\* and no done title (it may gain the key of a parent the search found and
\* an empty list for a title).
C6_SimulationNeverPersists ==
    (run > 0 /\ DRY_RUN) =>
        /\ lastCall = "none"
        /\ primaryFile = runStart.primary /\ fallbackFile = runStart.fallback
        /\ pc \in InDocument \cup {"loop", "done"} =>
              /\ sent_log.done = runStart.log.done
              /\ \A t \in DOMAIN sent_log.sent :
                    SentOf(sent_log, t) = SentOf(runStart.log, t)

\* a dry run has gone through every highlight of a document that has some
C6_Witness ==
    /\ run > 0 /\ DRY_RUN /\ pc = "loop"
    /\ \E i \in DOMAIN md_files :
          <<i, "committed">> \in visitLog /\ md_files[i].highlights # <<>>

\* C7: a title a live run marked done and saved is skipped by a later live
\* run with resume enabled: the resolver is not called for a document of
\* that title.
C7_DoneTitleSkipped ==
    (pc = "search" /\ ~DRY_RUN /\ RESUME_ENABLED) =>
        \A d \in committed :
            d[1] < run =>
                normalize_title(Title(d[2])) # normalize_title(Title(idx))

\* C8: when the create response carries no key and no recency listing
\* matches, the resolver gives up after exactly 3 listings and one create
\* call, no child-creation call is made for the document, and the Journal
\* is as it was when the resolver was called.
C8_RecoveryExhausted ==
    /\ pc = "recover" => (listCalls < 3 /\ createCalls = 1)
    /\ (pc = "unresolved" /\ listCalls > 0) =>
          /\ listCalls = 3
          /\ createCalls = 1
          /\ \A c \in childLog : ~(c.run = run /\ c.doc = idx)
          /\ sent_log = docStart.log
          /\ primaryFile = docStart.primary /\ fallbackFile = docStart.fallback

\* the recovery has run out for a document
C8_Witness == pc = "unresolved" /\ listCalls = 3 /\ ~DRY_RUN

\* C9: a transport error inside the loop over the documents never ends the
\* run.
C9_TransportErrorNeverAborts == abortReason # "transport"

\* C10: loading the Journal never ends the run, whatever the two files hold.
C10_LoadNeverAborts == abortReason # "journal_load"

\* C11: a kill inside a Journal save leaves a Journal that loads as the
\* complete old one or the complete new one.
C11_KillInSaveKeepsJournal ==
    (run > 0 /\ pc = "killed" /\ runInfo[run].inSave) =>
        LET now == load_sent_log(primaryFile, fallbackFile)
            old == load_sent_log(docStart.primary, docStart.fallback)
            new == { load_sent_log(saved.primary, saved.fallback).log :
                        saved \in { save_sent_log(docStart.primary, docStart.fallback,
                                                  sent_log, vaultWritable, TRUE) :
                                       vaultWritable \in BOOLEAN } }
        IN  ~now.raised /\ now.log \in {old.log} \cup new

\* the fields a fingerprint is made of
Triple(h) == <<h.text, OrEmpty(h.note), OrEmpty(h.location)>>

\* C12: two highlights have the same fingerprint if and only if their
\* (text, note-or-empty, location-or-empty) triples are equal.
C12_FingerprintInjective ==
    (call.fn = "highlight_hash" /\ ret # <<>>) =>
        (ret[1][1] = ret[1][2] <=> Triple(call.arg[1]) = Triple(call.arg[2]))

\* C13: in a live run the prompt is shown once; a mutating call goes out
\* only after it was answered yes; when it is unavailable or answered
\* otherwise the run ends there, before any remote call, Journal read or
\* Journal write.
C13_NoWriteWithoutConfirmation ==
    (run > 0 /\ ~DRY_RUN) =>
        LET info == runInfo[run]
        IN  /\ info.prompts <= 1
            /\ lastCall # "none" => (info.prompts = 1 /\ info.answer = "yes")
            /\ info.answer = "none" => pc \in {"confirm", "killed"}
            /\ info.answer = "no" => pc = "exited"
            /\ info.answer # "yes" =>
                  /\ primaryFile = runStart.primary /\ fallbackFile = runStart.fallback
                  /\ sent_log = EmptyDict /\ collection_key = NoKey
                  /\ idx = 0 /\ visitLog = {}
                  /\ \A c \in childLog : c.run # run

\* a live run sends a create-parent call
C13_Witness ==
    run > 0 /\ ~DRY_RUN /\ lastCall = "create_parent" /\ runInfo[run].answer = "yes"

\* C14: normalize_title applied to its own result gives that result, and
\* an empty or absent heading gives the empty string.
C14_NormalizeIdempotent ==
    (call.fn = "normalize_title" /\ ret # <<>>) =>
        /\ normalize_title(ret[1]) = ret[1]
        /\ call.arg \in {None, <<>>} => ret[1] = <<>>

\* a heading with a capital, punctuation and a blank between two words
C14_Witness ==
    /\ call.fn = "normalize_title" /\ ret # <<>>
    /\ call.arg = <<"A", "!", " ", "a">>
    /\ ret[1] = <<"a", " ", "a">>

\* the Journal as the next load would read it from the two files
Persisted == load_sent_log(primaryFile, fallbackFile)

\* the fingerprints of document i
Fingerprints(i) == {highlight_hash(md_files[i].highlights[k]) :
                       k \in 1..Len(md_files[i].highlights)}

\* C15: in a live run, between two documents the persisted Journal holds
\* the parent key, the done mark and every sent fingerprint of each
\* document the run has committed.
C15_CommittedIsPersisted ==
    (run > 0 /\ ~DRY_RUN /\ pc = "loop") =>
        \A d \in committed :
            d[1] = run =>
                LET norm_t == normalize_title(Title(d[2]))
                IN  /\ ~Persisted.raised
                    /\ KeyTruthy(Get(Persisted.log.items, norm_t, NoKey))
                    /\ norm_t \in Range(Persisted.log.done)
                    /\ Fingerprints(d[2]) \subseteq
                          Range(Get(Persisted.log.sent, Title(d[2]), <<>>))

\* C16: within one run and one document, at most one child-creation call
\* goes out per fingerprint.
C16_OneCallPerFingerprint ==
    \A c1 \in childLog, c2 \in childLog :
        (c1.run = c2.run /\ c1.doc = c2.doc /\ c1.fp = c2.fp) => c1.h = c2.h

\* the documents of this run that ended Committed or Parent-Failed
Terminal == {v \in visitLog : v[2] \in {"committed", "failed"}}

\* C17: with a batch cap N > 0 a live run brings at most N documents to
\* Committed or Parent-Failed.
C17_CapCountsFailedParents ==
    (run > 0 /\ ~DRY_RUN /\ BATCH_LIMIT > 0) => Cardinality(Terminal) <= BATCH_LIMIT

\* does value v of the success map give a key?
GivesKey(v) == v.t \in {"dict", "str"} /\ KeyTruthy(v.key)

\* C18: the key comes from the first strategy that finds one, (a) a value
\* of the success map, (b) the first element of a list, (c) the end of the
\* Location header, and what is returned is a non-empty key or none.
C18_FirstKeyOrNone ==
    (call.fn = "extract_created_key" /\ ret # <<>>) =>
        LET r == call.arg
            k == ret[1]
            a == {i \in 1..Len(r.successful) : GivesKey(r.successful[i])}
            hasA == r.json = "dict" /\ a # {}
            hasB == r.json = "list" /\ r.first.isDict
                    /\ (KeyTruthy(r.first.key) \/ KeyTruthy(r.first.dataKey))
            hasC == r.location.present /\ r.location.hasItems
                    /\ KeyTruthy(r.location.tail)
        IN  /\ hasA => k = r.successful[CHOOSE i \in a : \A j \in a : i <= j].key
            /\ (~hasA /\ hasB) =>
                  k = IF KeyTruthy(r.first.key) THEN r.first.key ELSE r.first.dataKey
            /\ (~hasA /\ ~hasB /\ hasC) => k = r.location.tail
            /\ (~hasA /\ ~hasB /\ ~hasC) => k = NoKey
            /\ k # EmptyKey

\* Journal held contains everything Journal log holds
Holds(held, log) ==
    /\ \A t \in DOMAIN log.items : Get(held.items, t, NoKey) = log.items[t]
    /\ Range(log.done) \subseteq Range(held.done)
    /\ \A t \in DOMAIN log.sent :
          Range(log.sent[t]) \subseteq Range(Get(held.sent, t, <<>>))

\* C19: right after a save to the primary path or, when that cannot be
\* written, to the fallback path, a load returns every parent key, done
\* title and sent fingerprint of the Journal saved.
C19_LoadHoldsLastSave ==
    (run > 0 /\ ~DRY_RUN /\ pc \in {"loop", "done"} /\ <<run, idx>> \in committed) =>
        ~Persisted.raised /\ Holds(Persisted.log, sent_log)

\* C20: in a live run with resume enabled a document is skipped as already
\* completed only if its normalized title was among the done titles of the
\* Journal loaded at the start of the run.
C20_SkippedOnlyIfDoneBefore ==
    (run > 0 /\ ~DRY_RUN /\ RESUME_ENABLED) =>
        \A v \in visitLog :
            v[2] = "skipped" =>
                normalize_title(Title(v[1])) \in Range(runStart.log.done)

====
